---- MODULE Spec2Model ----
(***************************************************************************)
(* Model of the Sudoku CSP solver (core/csp.py) and of the puzzle service  *)
(* (puzzles/generator.py).  Cells are 0-indexed pairs <<row, col>>; a      *)
(* board is a function from cells to 0..size (0 = empty); a domain is a    *)
(* sequence of values (a Python list); a domain map and an assignment are  *)
(* functions from cells (Python dicts).  The generator is modelled by an   *)
(* explicit stack of frames; one action is one next() on the generator     *)
(* together with the body of the consumer's loop for the event it got.     *)
(***************************************************************************)
EXTENDS Integers, Sequences, FiniteSets, TLC

VARIABLES
    board,            \* the caller's board object (argument of the constructor)
    size_arg,         \* the size argument of the constructor
    mode,             \* which caller drives the engine
    difficulty,       \* generate_puzzle's difficulty argument
    pc,               \* position of the caller
    size, box_size, variables, initial_domains, initial_board,
    nodes, backtracks, solutions,       \* fields of the SudokuCSP instance
    gen,              \* state of the generator object
    stack,            \* frames of the nested generators, root first
    assignment,       \* the assignment dict shared by all frames of a run
    event,            \* the event the consumer holds
    sols,             \* assignments of the solution events seen by the consumer
    fc_fails,         \* number of fc_fail events seen by the consumer
    solution_count,   \* is_valid_puzzle's local counter
    solution,         \* generate_puzzle's local: the first solution found
    result,           \* value returned by is_valid_puzzle / generate_puzzle
    results,          \* values returned by earlier calls on the same board
    run,              \* number of generators created on the current instance
    trace, trace1,    \* events of the current run and of the first run
    call, ret         \* arguments and result of a direct method call

vars == <<board, size_arg, mode, difficulty, pc, size, box_size, variables,
          initial_domains, initial_board, nodes, backtracks, solutions,
          gen, stack, assignment, event, sols, fc_fails, solution_count,
          solution, result, results, run, trace, trace1, call, ret>>

cspVars == <<size, box_size, variables, initial_domains, initial_board>>
statVars == <<nodes, backtracks, solutions>>

-----------------------------------------------------------------------------
(* Bounds of the model *)

\* boards of the search runs: a seed grid with at most MaxEmpty cells cleared
MaxEmpty == 3
\* values that may occur in the domains handed to a direct method call
MaxDomVal == 2
\* number of outcomes of the shuffle of the cell list in generate_puzzle
MaxShuffles == 3
\* longest prefix of a run that is consumed before it is abandoned
MaxPrefix == 6

-----------------------------------------------------------------------------
(* Python values *)

None == << >>
EmptyDict == << >>

Range(s) == {s[i] : i \in DOMAIN s}

Cells(n) == {<<r, c>> : r \in 0..(n - 1), c \in 0..(n - 1)}

\* for r in range(n): for c in range(n)
RowMajor(n) == [i \in 1..(n * n) |-> <<(i - 1) \div n, (i - 1) % n>>]

\* int(np.sqrt(size))
int_sqrt(n) == CHOOSE k \in 0..n : k * k <= n /\ (k + 1) * (k + 1) > n

\* list.remove(value): drops the first occurrence
list_remove(s, x) ==
    LET i == CHOOSE j \in 1..Len(s) : s[j] = x /\ \A k \in 1..(j - 1) : s[k] # x
    IN  SubSeq(s, 1, i - 1) \o SubSeq(s, i + 1, Len(s))

list_contains(s, x) == \E i \in 1..Len(s) : s[i] = x

\* mutation: d.clear() instead of del d[k]
dict_del_clear(d, k) == [x \in {} |-> 0]

\* del d[k]
dict_del(d, k) == [x \in (DOMAIN d) \ {k} |-> d[x]]

\* d[k] = v
dict_set(d, k, v) == [x \in (DOMAIN d) \cup {k} |-> IF x = k THEN v ELSE d[x]]

\* a board with the cells of an assignment filled in
Merge(b, asg) == [cell \in DOMAIN b |-> IF cell \in DOMAIN asg THEN asg[cell] ELSE b[cell]]

\* the value of Op for the value of x, x being evaluated once
Bind(x, Op(_)) == CHOOSE r \in {Op(y) : y \in {x}} : TRUE

\* r == row or c == col or same box
same_unit(r, c, row, col, bs) ==
    \/ r = row
    \/ c = col
    \/ (r \div bs = row \div bs /\ c \div bs = col \div bs)

-----------------------------------------------------------------------------
(* SudokuCSP.__init__ *)

\* mutation: the row clause of the condition is forgotten
remove_conflicts_norow(row, col, value, domains, bs) ==
    [v \in DOMAIN domains |->
        IF /\ (v[2] = col \/ (v[1] \div bs = row \div bs /\ v[2] \div bs = col \div bs))
           /\ list_contains(domains[v], value)
        THEN list_remove(domains[v], value)
        ELSE domains[v]]

\* mutation: the box clause of the condition is forgotten
remove_conflicts_rowcol(row, col, value, domains, bs) ==
    [v \in DOMAIN domains |->
        IF (v[1] = row \/ v[2] = col) /\ list_contains(domains[v], value)
        THEN list_remove(domains[v], value)
        ELSE domains[v]]

remove_conflicts(row, col, value, domains, bs) ==
    [v \in DOMAIN domains |->
        IF same_unit(v[1], v[2], row, col, bs) /\ list_contains(domains[v], value)
        THEN list_remove(domains[v], value)
        ELSE domains[v]]

RECURSIVE prune_filled(_, _, _, _, _)
prune_filled(i, n, bs, brd, domains) ==
    IF i > n * n THEN domains
    ELSE LET cell == RowMajor(n)[i]
         IN  IF brd[cell] # 0
             THEN Bind(remove_conflicts(cell[1], cell[2], brd[cell], domains, bs),
                       LAMBDA pruned : prune_filled(i + 1, n, bs, brd, pruned))
             ELSE prune_filled(i + 1, n, bs, brd, domains)

SudokuCSP_init(sz, board_arg) ==
    LET bs == int_sqrt(sz)
        brd == IF board_arg = None THEN [cell \in Cells(sz) |-> 0] ELSE board_arg
        vs == SelectSeq(RowMajor(sz), LAMBDA cell : brd[cell] = 0)
        full == [v \in Range(vs) |-> [i \in 1..sz |-> i]]
    IN  [size |-> sz,
         box_size |-> bs,
         variables |-> vs,
         initial_domains |-> prune_filled(1, sz, bs, brd, full),
         initial_board |-> brd]

-----------------------------------------------------------------------------
(* Methods of the instance; they read self.size, self.box_size and          *)
(* self.variables.                                                           *)

\* mutation: the box origin is the box index, not the index of its first cell
is_consistent_badbox(var, value, asg) ==
    LET row == var[1]
        col == var[2]
        box_row == row \div box_size
        box_col == col \div box_size
    IN  /\ \A c \in 0..(size - 1) :
              ~(<<row, c>> \in DOMAIN asg /\ asg[<<row, c>>] = value)
        /\ \A r \in 0..(size - 1) :
              ~(<<r, col>> \in DOMAIN asg /\ asg[<<r, col>>] = value)
        /\ \A r \in box_row..(box_row + box_size - 1) :
              \A c \in box_col..(box_col + box_size - 1) :
                 ~(<<r, c>> \in DOMAIN asg /\ asg[<<r, c>>] = value)

is_consistent(var, value, asg) ==
    LET row == var[1]
        col == var[2]
        box_row == (row \div box_size) * box_size
        box_col == (col \div box_size) * box_size
    IN  /\ \A c \in 0..(size - 1) :
              ~(<<row, c>> \in DOMAIN asg /\ asg[<<row, c>>] = value)
        /\ \A r \in 0..(size - 1) :
              ~(<<r, col>> \in DOMAIN asg /\ asg[<<r, col>>] = value)
        /\ \A r \in box_row..(box_row + box_size - 1) :
              \A c \in box_col..(box_col + box_size - 1) :
                 ~(<<r, c>> \in DOMAIN asg /\ asg[<<r, c>>] = value)

count_constraints(var, asg) ==
    Cardinality({i \in 1..Len(variables) :
        /\ variables[i] \notin DOMAIN asg
        /\ variables[i] # var
        /\ same_unit(variables[i][1], variables[i][2], var[1], var[2], box_size)})

\* key of min(): (len(domains[v]), -count)
mrv_key_less(a, b) == a[1] < b[1] \/ (a[1] = b[1] /\ a[2] < b[2])

\* mutation: the degree enters the key with the wrong sign
select_unassigned_var_ascdegree(domains, asg) ==
    LET unassigned == SelectSeq(variables, LAMBDA v : v \notin DOMAIN asg)
        key(v) == <<Len(domains[v]), count_constraints(v, asg)>>
        i == CHOOSE j \in 1..Len(unassigned) :
                 /\ \A k \in 1..Len(unassigned) :
                       ~mrv_key_less(key(unassigned[k]), key(unassigned[j]))
                 /\ \A k \in 1..(j - 1) :
                       mrv_key_less(key(unassigned[j]), key(unassigned[k]))
    IN  unassigned[i]

select_unassigned_var(domains, asg) ==
    Bind(SelectSeq(variables, LAMBDA v : v \notin DOMAIN asg),
         LAMBDA unassigned :
            LET key(v) == <<Len(domains[v]), 0 - count_constraints(v, asg)>>
                \* min() keeps the first element that no other element is
                \* smaller than
                i == CHOOSE j \in 1..Len(unassigned) :
                         /\ \A k \in 1..Len(unassigned) :
                               ~mrv_key_less(key(unassigned[k]), key(unassigned[j]))
                         /\ \A k \in 1..(j - 1) :
                               mrv_key_less(key(unassigned[j]), key(unassigned[k]))
            IN  unassigned[i])

eliminated_count(var, value, domains, asg) ==
    Cardinality({i \in 1..Len(variables) :
        /\ variables[i] # var
        /\ variables[i] \notin DOMAIN asg
        /\ same_unit(variables[i][1], variables[i][2], var[1], var[2], box_size)
        /\ list_contains(domains[variables[i]], value)})

\* list.sort(key=...) is stable: insert each value after the values whose key
\* is not larger
RECURSIVE stable_sort(_, _, _, _)
stable_sort(values, var, domains, asg) ==
    IF values = << >> THEN << >>
    ELSE LET n == Len(values)
             x == values[n]
             kx == eliminated_count(var, x, domains, asg)
         IN  Bind(stable_sort(SubSeq(values, 1, n - 1), var, domains, asg),
                  LAMBDA front :
                     LET p == Cardinality({i \in 1..Len(front) :
                                  eliminated_count(var, front[i], domains, asg) <= kx})
                     IN  SubSeq(front, 1, p) \o <<x>> \o SubSeq(front, p + 1, Len(front)))

order_domain_values(var, domains, asg) ==
    stable_sort(domains[var], var, domains, asg)

\* the loop of forward_check over self.variables, from index i on
RECURSIVE fc_loop(_, _, _, _, _)
fc_loop(i, var, value, nd, removed) ==
    IF i > Len(variables) THEN [new_domains |-> nd, removed |-> removed]
    ELSE LET v == variables[i]
         IN  IF v = var \/ ~same_unit(v[1], v[2], var[1], var[2], box_size)
             THEN fc_loop(i + 1, var, value, nd, removed)
             ELSE LET hit == list_contains(nd[v], value)
                      nd2 == IF hit
                             THEN [nd EXCEPT ![v] = list_remove(nd[v], value)]
                             ELSE nd
                      rm2 == IF hit
                             THEN [removed EXCEPT ![v] = Append(removed[v], value)]
                             ELSE removed
                  IN  Bind(<<nd2, rm2>>,
                           LAMBDA s : IF s[1][v] = << >>
                                      THEN [new_domains |-> None, removed |-> s[2]]
                                      ELSE fc_loop(i + 1, var, value, s[1], s[2]))

\* mutation: the wipeout test is lost, the pruned copy is always returned
forward_check_nowipeout(var, value, domains) ==
    LET hit(v) == /\ v # var
                  /\ same_unit(v[1], v[2], var[1], var[2], box_size)
                  /\ list_contains(domains[v], value)
    IN  [new_domains |-> [v \in DOMAIN domains |->
                             IF v = var THEN <<value>>
                             ELSE IF hit(v) THEN list_remove(domains[v], value)
                             ELSE domains[v]],
         removed |-> [v \in DOMAIN domains |-> IF hit(v) THEN <<value>> ELSE << >>],
         domains |-> domains]

\* mutation: the loop of lines 199-212 is lost, no neighbour is pruned
forward_check_noprune(var, value, domains) ==
    [new_domains |-> [v \in DOMAIN domains |-> IF v = var THEN <<value>> ELSE domains[v]],
     removed |-> [v \in DOMAIN domains |-> << >>],
     domains |-> domains]

\* mutation: line 195 is forgotten, the domain of var is not collapsed
forward_check_nopin(var, value, domains) ==
    LET r == fc_loop(1, var, value, domains, [v \in DOMAIN domains |-> << >>])
    IN  [new_domains |-> r.new_domains, removed |-> r.removed, domains |-> domains]

\* mutation: new_domains = domains, no copy is made: the loop prunes the
\* caller's map, up to the variable whose domain it empties
forward_check_inplace(var, value, domains) ==
    LET r == fc_loop(1, var, value,
                     [v \in DOMAIN domains |-> IF v = var THEN <<value>> ELSE domains[v]],
                     [v \in DOMAIN domains |-> << >>])
        hit(i) == /\ variables[i] # var
                  /\ same_unit(variables[i][1], variables[i][2], var[1], var[2], box_size)
        wiped == {i \in 1..Len(variables) :
                     hit(i) /\ SelectSeq(domains[variables[i]], LAMBDA x : x # value) = << >>}
        last == IF wiped = {} THEN Len(variables)
                ELSE CHOOSE i \in wiped : \A j \in wiped : i <= j
    IN  [new_domains |-> r.new_domains,
         removed |-> r.removed,
         domains |-> [v \in DOMAIN domains |->
                         IF v = var THEN <<value>>
                         ELSE IF \E i \in 1..last : variables[i] = v /\ hit(i)
                                                      /\ list_contains(domains[v], value)
                              THEN list_remove(domains[v], value)
                              ELSE domains[v]]]

\* forward_check returns (new_domains, removed); the field domains is the
\* caller's map as the call leaves it
forward_check(var, value, domains) ==
    LET new_domains == [v \in DOMAIN domains |->
                           IF v = var THEN <<value>> ELSE domains[v]]
        removed == [v \in DOMAIN domains |-> << >>]
        r == fc_loop(1, var, value, new_domains, removed)
    IN  [new_domains |-> r.new_domains, removed |-> r.removed, domains |-> domains]

-----------------------------------------------------------------------------
(* Inputs *)

Sizes == {1, 2, 3, 4}
SquareSizes == {1, 4}

GridOf(rows) == [cell \in Cells(Len(rows)) |-> rows[cell[1] + 1][cell[2] + 1]]

\* a complete valid 4x4 grid
SolvedGrid == GridOf(<< <<1, 2, 3, 4>>,
                        <<3, 4, 1, 2>>,
                        <<2, 1, 4, 3>>,
                        <<4, 3, 2, 1>> >>)

\* the same grid with cell (0,0) overwritten: its value now occurs twice in
\* row 0, in column 0 and in the top-left box
FlawedGrid == [SolvedGrid EXCEPT ![<<0, 0>>] = 2]

\* SolvedGrid with the corners of a rectangle cleared: two completions
TwoSolutionBoard ==
    [cell \in Cells(4) |->
        IF cell \in {<<0, 0>>, <<0, 2>>, <<1, 0>>, <<1, 2>>} THEN 0
        ELSE SolvedGrid[cell]]

\* SolvedGrid with its four corners cleared: rows and columns alone leave two
\* values for each corner, the pre-filled cells of its box decide
CornersBoard ==
    [cell \in Cells(4) |->
        IF cell \in {<<0, 0>>, <<0, 3>>, <<3, 0>>, <<3, 3>>} THEN 0
        ELSE SolvedGrid[cell]]

EmptyBoard(n) == [cell \in Cells(n) |-> 0]

Clear(grid, S) == [cell \in DOMAIN grid |-> IF cell \in S THEN 0 ELSE grid[cell]]

ClearSets(k) == {S \in SUBSET Cells(4) : Cardinality(S) <= k}

SeedGrids == {SolvedGrid, FlawedGrid}

\* three clues that are mutually consistent but leave no completion; the
\* search meets two domain wipeouts
SparseBoard == GridOf(<< <<3, 0, 0, 0>>,
                         <<0, 0, 0, 0>>,
                         <<0, 0, 0, 3>>,
                         <<0, 4, 0, 0>> >>)

Boards4(k) == {Clear(g, S) : g \in SeedGrids, S \in ClearSets(k)}
                 \cup {TwoSolutionBoard, CornersBoard, SparseBoard, EmptyBoard(4)}

Boards1 == {EmptyBoard(1), [cell \in Cells(1) |-> 1]}

\* len(board)
board_len(b) == CHOOSE n \in 0..4 : DOMAIN b = Cells(n)

-----------------------------------------------------------------------------
(* State before the constructor has run *)

NoInstance ==
    /\ size = 0
    /\ box_size = 0
    /\ variables = << >>
    /\ initial_domains = << >>
    /\ initial_board = << >>
    /\ nodes = 0
    /\ backtracks = 0
    /\ solutions = 0

NoRun ==
    /\ gen = "none"
    /\ stack = << >>
    /\ assignment = EmptyDict
    /\ event = None
    /\ sols = << >>
    /\ fc_fails = 0
    /\ solution_count = 0
    /\ solution = None
    /\ run = 0
    /\ trace = << >>
    /\ trace1 = << >>

NoCall ==
    /\ call = None
    /\ ret = None

-----------------------------------------------------------------------------
(* Construction and creation of the generator *)

\* temp_csp = SudokuCSP(size, board); __init__ ends with self.reset()
Construct ==
    /\ pc = "init"
    /\ \E self \in {SudokuCSP_init(size_arg, board)} :
           /\ size' = self.size
           /\ box_size' = self.box_size
           /\ variables' = self.variables
           /\ initial_domains' = self.initial_domains
           /\ initial_board' = self.initial_board
    /\ nodes' = 0
    /\ backtracks' = 0
    /\ solutions' = 0
    /\ pc' = "constructed"
    /\ UNCHANGED <<board, size_arg, mode, difficulty, gen, stack, assignment,
                   event, sols, fc_fails, solution_count, solution, result,
                   results, run, trace, trace1, call, ret>>

Frame(domains, var, lcv_order, i, new_domains, at) ==
    [domains |-> domains, var |-> var, lcv_order |-> lcv_order, i |-> i,
     new_domains |-> new_domains, pc |-> at]

\* domains is None: {v: list(self.initial_domains[v]) for v in self.variables}
DefaultDomains == [v \in Range(variables) |-> initial_domains[v]]

\* mutation: the default is one dict shared by all calls (assignment={} in the
\* signature), so a run starts with what the previous run left in it
DefaultAssignment_shared == assignment

\* assignment is None: {}
DefaultAssignment == EmptyDict

\* mutation: the generator function calls self.reset() when it is called
Start_reset ==
    /\ pc \in {"constructed", "idle"}
    /\ gen' = "created"
    /\ stack' = <<Frame(DefaultDomains, None, << >>, 0, None, "start")>>
    /\ assignment' = DefaultAssignment
    /\ run' = run + 1
    /\ trace1' = IF run = 0 THEN << >> ELSE trace
    /\ trace' = << >>
    /\ event' = None
    /\ sols' = << >>
    /\ fc_fails' = 0
    /\ nodes' = 0
    /\ backtracks' = 0
    /\ solutions' = 0
    /\ pc' = "running"
    /\ UNCHANGED <<board, size_arg, mode, difficulty, cspVars,
                   solution_count, solution, result, results, call, ret>>

\* gen = csp.backtrack_generator(): the body does not run before the first
\* next(); the defaults are evaluated then, on an unchanged instance
Start ==
    /\ pc \in {"constructed", "idle"}
    /\ gen' = "created"
    /\ stack' = <<Frame(DefaultDomains, None, << >>, 0, None, "start")>>
    /\ assignment' = DefaultAssignment
    /\ run' = run + 1
    /\ trace1' = IF run = 0 THEN << >> ELSE trace
    /\ trace' = << >>
    /\ event' = None
    /\ sols' = << >>
    /\ fc_fails' = 0
    /\ pc' = "running"
    /\ UNCHANGED <<board, size_arg, mode, difficulty, cspVars, statVars,
                   solution_count, solution, result, results, call, ret>>

-----------------------------------------------------------------------------
(* The consumer's loop body: what the caller does with the event it gets,   *)
(* or with the end of the sequence (exhausted).                              *)

\* the end of the event sequence, as the recording consumer notes it
StopIteration == <<"StopIteration">>

IsEvent(e, kind) == e # None /\ e[1] = kind

\* for event in gen: pass
ReactDrain(exhausted, e) ==
    /\ pc' = IF exhausted THEN "done" ELSE "running"
    /\ UNCHANGED <<solution_count, solution, result>>

\* a caller that records the events of a run and then runs the search again
ReactReplay(exhausted, e) ==
    /\ pc' = IF ~exhausted THEN "running" ELSE IF run = 1 THEN "idle" ELSE "done"
    /\ UNCHANGED <<solution_count, solution, result>>

\* is_valid_puzzle: the loop over the events and the final return
ReactValidate(exhausted, e) ==
    IF exhausted
    THEN /\ result' = <<solution_count = 1>>
         /\ pc' = "done"
         /\ UNCHANGED <<solution_count, solution>>
    ELSE IF IsEvent(e, "solution")
         THEN /\ solution_count' = solution_count + 1
              /\ IF solution_count + 1 > 1
                 THEN result' = <<FALSE>> /\ pc' = "done"
                 ELSE result' = result /\ pc' = "running"
              /\ UNCHANGED solution
         ELSE /\ pc' = "running"
              /\ UNCHANGED <<solution_count, solution, result>>

\* generate_puzzle: the loop that stops at the first solution event
ReactGenerate(exhausted, e) ==
    /\ solution' = IF IsEvent(e, "solution") THEN e[2] ELSE solution
    /\ pc' = IF exhausted \/ IsEvent(e, "solution") THEN "searched" ELSE "running"
    /\ UNCHANGED <<solution_count, result>>

React(exhausted, e) ==
    /\ sols' = IF IsEvent(e, "solution") THEN Append(sols, e[2]) ELSE sols
    /\ fc_fails' = IF IsEvent(e, "fc_fail") THEN fc_fails + 1 ELSE fc_fails
    /\ trace' = IF mode # "replay" THEN trace
                ELSE IF exhausted THEN Append(trace, StopIteration)
                ELSE Append(trace, e)
    /\ CASE mode = "drain" -> ReactDrain(exhausted, e)
         [] mode = "replay" -> ReactReplay(exhausted, e)
         [] mode = "validate" -> ReactValidate(exhausted, e)
         [] mode = "generate" -> ReactGenerate(exhausted, e)
    /\ UNCHANGED <<board, size_arg, mode, difficulty, cspVars, results, run,
                   trace1, call, ret>>

-----------------------------------------------------------------------------
(* backtrack_generator: one action per point where the generator resumes    *)

Top == stack[Len(stack)]
Below == SubSeq(stack, 1, Len(stack) - 1)

Resumable == pc = "running" /\ gen \in {"created", "suspended"} /\ stack # << >>

\* the generator suspends at a yield of event e
Yield(stk, asg, dn, db, ds, e) ==
    /\ stack' = stk
    /\ assignment' = asg
    /\ nodes' = nodes + dn
    /\ backtracks' = backtracks + db
    /\ solutions' = solutions + ds
    /\ gen' = "suspended"
    /\ event' = e
    /\ React(FALSE, e)

\* lines 233-243: entry of a call with the given domains, on top of stk
EnterNode(stk, domains) ==
    IF Cardinality(DOMAIN assignment) = Len(variables)
    THEN Yield(stk \o <<Frame(domains, None, << >>, 0, None, "solution")>>,
               assignment, 1, 0, 1, <<"solution", assignment>>)
    ELSE \E var \in {select_unassigned_var(domains, assignment)} :
            Yield(stk \o <<Frame(domains, var, << >>, 0, None, "mrv")>>,
                  assignment, 1, 0, 0, <<"mrv", var, domains[var]>>)

\* mutation: line 279 is forgotten, the return of a recursive call is not
\* counted as a backtrack
ReturnTo_uncounted(stk) ==
    IF stk = << >>
    THEN /\ stack' = << >>
         /\ gen' = "exhausted"
         /\ event' = None
         /\ UNCHANGED <<assignment, statVars>>
         /\ React(TRUE, None)
    ELSE LET caller == stk[Len(stk)]
             asg == dict_del(assignment, caller.var)
         IN  Yield(SubSeq(stk, 1, Len(stk) - 1) \o <<[caller EXCEPT !.pc = "unassign"]>>,
                   asg, 0, 0, 0, <<"unassign", caller.var, asg>>)

\* the top call returns; stk is the stack below it.  The caller, if any, is
\* at line 274 and goes on to lines 278-280
ReturnTo(stk) ==
    IF stk = << >>
    THEN /\ stack' = << >>
         /\ gen' = "exhausted"
         /\ event' = None
         /\ UNCHANGED <<assignment, statVars>>
         /\ React(TRUE, None)
    ELSE LET caller == stk[Len(stk)]
             asg == dict_del(assignment, caller.var)
         IN  Yield(SubSeq(stk, 1, Len(stk) - 1) \o <<[caller EXCEPT !.pc = "unassign"]>>,
                   asg, 0, 1, 0, <<"unassign", caller.var, asg>>)

\* first next() on a new generator
NextFromStart ==
    /\ Resumable
    /\ Top.pc = "start"
    /\ EnterNode(<< >>, Top.domains)

\* resume after yield ('solution', ...): return
NextAfterSolution ==
    /\ Resumable
    /\ Top.pc = "solution"
    /\ ReturnTo(Below)

\* mutation: the yield of line 247 is skipped, the loop commits its first
\* value right after the 'mrv' event
NextAfterMrv_nolcv ==
    /\ Resumable
    /\ Top.pc = "mrv"
    /\ \E lcv_order \in {order_domain_values(Top.var, Top.domains, assignment)} :
           IF lcv_order = << >>
           THEN Yield(Below \o <<[Top EXCEPT !.lcv_order = lcv_order, !.pc = "lcv"]>>,
                      assignment, 0, 0, 0, <<"lcv", Top.var, lcv_order>>)
           ELSE Yield(Below \o <<[Top EXCEPT !.lcv_order = lcv_order, !.i = 1,
                                             !.pc = "assign"]>>,
                      dict_set(assignment, Top.var, lcv_order[1]), 0, 0, 0,
                      <<"assign", Top.var, lcv_order[1],
                        dict_set(assignment, Top.var, lcv_order[1])>>)

\* resume after yield ('mrv', ...): lines 246-247
NextAfterMrv ==
    /\ Resumable
    /\ Top.pc = "mrv"
    /\ \E lcv_order \in {order_domain_values(Top.var, Top.domains, assignment)} :
           Yield(Below \o <<[Top EXCEPT !.lcv_order = lcv_order, !.pc = "lcv"]>>,
                 assignment, 0, 0, 0, <<"lcv", Top.var, lcv_order>>)

\* head of the loop over lcv_order (lines 250-258), reached after the lcv,
\* pruned and unassign events
NextValue ==
    /\ Resumable
    /\ Top.pc \in {"lcv", "pruned", "unassign"}
    /\ LET i == Top.i + 1
       IN  IF i > Len(Top.lcv_order)
           THEN ReturnTo(Below)
           ELSE LET value == Top.lcv_order[i]
                IN  IF ~is_consistent(Top.var, value, assignment)
                    THEN Yield(Below \o <<[Top EXCEPT !.i = i, !.pc = "pruned"]>>,
                               assignment, 0, 0, 0, <<"pruned", Top.var, value>>)
                    ELSE LET asg == dict_set(assignment, Top.var, value)
                         IN  Yield(Below \o <<[Top EXCEPT !.i = i, !.pc = "assign"]>>,
                                   asg, 0, 0, 0, <<"assign", Top.var, value, asg>>)

\* resume after yield ('assign', ...): lines 261-271
NextAfterAssign ==
    /\ Resumable
    /\ Top.pc = "assign"
    /\ \E value \in {Top.lcv_order[Top.i]} :
       \E fc \in {forward_check(Top.var, value, Top.domains)} :
           IF fc.new_domains = None
           THEN Yield(Below \o <<[Top EXCEPT !.domains = fc.domains, !.pc = "fc_fail"]>>,
                      assignment, 0, 0, 0, <<"fc_fail", Top.var, value, fc.removed>>)
           ELSE Yield(Below \o <<[Top EXCEPT !.domains = fc.domains,
                                             !.new_domains = fc.new_domains,
                                             !.pc = "fc_ok"]>>,
                      assignment, 0, 0, 0, <<"fc_ok", Top.var, value, fc.removed>>)

\* mutation: line 266 is forgotten, the failed commitment stays in the
\* assignment
NextAfterFcFail_nodelete ==
    /\ Resumable
    /\ Top.pc = "fc_fail"
    /\ Yield(Below \o <<[Top EXCEPT !.pc = "unassign"]>>,
             assignment, 0, 1, 0, <<"unassign", Top.var, assignment>>)

\* resume after yield ('fc_fail', ...): lines 265-267
NextAfterFcFail ==
    /\ Resumable
    /\ Top.pc = "fc_fail"
    /\ LET asg == dict_del(assignment, Top.var)
       IN  Yield(Below \o <<[Top EXCEPT !.pc = "unassign"]>>,
                 asg, 0, 1, 0, <<"unassign", Top.var, asg>>)

\* resume after yield ('fc_ok', ...): the recursive call of line 274
NextAfterFcOk ==
    /\ Resumable
    /\ Top.pc = "fc_ok"
    /\ EnterNode(Below \o <<[Top EXCEPT !.pc = "recurse"]>>, Top.new_domains)

-----------------------------------------------------------------------------
(* generate_puzzle(size, difficulty) *)

Difficulties == {"Easy", "Medium", "Hard", "Expert"}

\* the outcomes of np.random.shuffle(nums): the permutations of 1..n
Shuffled(n) == {p \in [1..n -> 1..n] : \A i, j \in 1..n : p[i] = p[j] => i = j}

\* the outcomes of np.random.shuffle(cells) that are explored: the cell list
\* rotated by a multiple of 5
Rotated(s, k) == [i \in 1..Len(s) |-> s[((i - 1 + k) % Len(s)) + 1]]
ShuffledCells(n) == {Rotated(RowMajor(n), 5 * j) : j \in 0..(MaxShuffles - 1)}

\* int(total_cells * fraction)
get_cells_to_remove(diff, n) ==
    LET total_cells == n * n
    IN  IF diff = "Easy" THEN (total_cells * 37) \div 100
        ELSE IF diff = "Medium" THEN (total_cells * 47) \div 100
        ELSE IF diff = "Hard" THEN (total_cells * 57) \div 100
        ELSE (total_cells * 37) \div 100

\* lines 14-27: an empty board whose diagonal boxes hold shuffled 1..size
SeedDiagonal ==
    /\ pc = "seed"
    /\ LET bs == int_sqrt(size_arg)
       IN  \E nums \in [0..(bs - 1) -> Shuffled(size_arg)] :
              board' = [cell \in Cells(size_arg) |->
                           IF /\ cell[1] \div bs = cell[2] \div bs
                              /\ cell[1] \div bs < bs
                           THEN nums[cell[1] \div bs]
                                    [(cell[1] % bs) * bs + (cell[2] % bs) + 1]
                           ELSE 0]
    /\ pc' = "init"
    /\ UNCHANGED <<size_arg, mode, difficulty, cspVars, statVars, gen, stack,
                   assignment, event, sols, fc_fails, solution_count, solution,
                   result, results, run, trace, trace1, call, ret>>

\* lines 37-54: fill the board from the solution, clear the first
\* cells_to_remove cells of the shuffled cell list, return the board
FinishGenerate ==
    /\ pc = "searched"
    /\ IF solution # EmptyDict
       THEN LET filled == Merge(board, solution)
                cells_to_remove == get_cells_to_remove(difficulty, size_arg)
            IN  \E cells \in ShuffledCells(size_arg) :
                   LET k == IF cells_to_remove < Len(cells)
                            THEN cells_to_remove ELSE Len(cells)
                   IN  board' = [cell \in DOMAIN filled |->
                                    IF \E i \in 1..k : cells[i] = cell
                                    THEN 0 ELSE filled[cell]]
       ELSE board' = board
    /\ result' = <<board'>>
    /\ pc' = "done"
    /\ UNCHANGED <<size_arg, mode, difficulty, cspVars, statVars, gen, stack,
                   assignment, event, sols, fc_fails, solution_count, solution,
                   results, run, trace, trace1, call, ret>>

-----------------------------------------------------------------------------
(* Callers that use one instance twice, or one board twice *)

\* the consumer stops asking for events; the suspended generator is dropped
Abandon ==
    /\ mode = "replay"
    /\ pc = "running"
    /\ run = 1
    /\ Len(trace) <= MaxPrefix
    /\ pc' = "idle"
    /\ UNCHANGED <<board, size_arg, mode, difficulty, cspVars, statVars, gen,
                   stack, assignment, event, sols, fc_fails, solution_count,
                   solution, result, results, run, trace, trace1, call, ret>>

\* is_valid_puzzle(board) is called once more on the same board: its locals
\* and its instance of the first call are gone
CallAgain ==
    /\ mode = "validate"
    /\ pc = "done"
    /\ results = << >>
    /\ results' = result
    /\ result' = None
    /\ pc' = "init"
    /\ size' = 0
    /\ box_size' = 0
    /\ variables' = << >>
    /\ initial_domains' = << >>
    /\ initial_board' = << >>
    /\ nodes' = 0
    /\ backtracks' = 0
    /\ solutions' = 0
    /\ gen' = "none"
    /\ stack' = << >>
    /\ assignment' = EmptyDict
    /\ event' = None
    /\ sols' = << >>
    /\ fc_fails' = 0
    /\ solution_count' = 0
    /\ solution' = None
    /\ run' = 0
    /\ trace' = << >>
    /\ trace1' = << >>
    /\ UNCHANGED <<board, size_arg, mode, difficulty, call, ret>>

-----------------------------------------------------------------------------
(* The callers of the engine *)

\* boards of the replayed runs
ReplayBoards ==
    {Clear(g, S) : g \in SeedGrids, S \in ClearSets(MaxEmpty - 1)}
        \cup {TwoSolutionBoard, SparseBoard}

Init ==
    /\ \/ /\ mode \in {"drain", "validate"}
          /\ \/ size_arg = 4 /\ board \in Boards4(MaxEmpty)
             \/ size_arg = 1 /\ board \in Boards1
          /\ difficulty = "Easy"
          /\ pc = "init"
       \/ /\ mode = "drain"
          /\ size_arg \in Sizes
          /\ board = None
          /\ difficulty = "Easy"
          /\ pc = "init"
       \/ /\ mode = "replay"
          /\ size_arg = 4
          /\ board \in ReplayBoards
          /\ difficulty = "Easy"
          /\ pc = "init"
       \/ /\ mode = "generate"
          /\ size_arg \in SquareSizes
          /\ difficulty \in Difficulties
          /\ board = None
          /\ pc = "seed"
    /\ result = None
    /\ results = << >>
    /\ NoInstance
    /\ NoRun
    /\ NoCall

Next ==
    \/ SeedDiagonal
    \/ Construct
    \/ Start
    \/ NextFromStart
    \/ NextAfterSolution
    \/ NextAfterMrv
    \/ NextValue
    \/ NextAfterAssign
    \/ NextAfterFcFail
    \/ NextAfterFcOk
    \/ Abandon
    \/ CallAgain
    \/ FinishGenerate

Spec == Init /\ [][Next]_vars

\* for event in csp.backtrack_generator(): pass -- a consumer that keeps
\* asking for the next event until the sequence ends
InitDrain == Init /\ mode = "drain"

NextDrain ==
    \/ Construct
    \/ Start
    \/ NextFromStart
    \/ NextAfterSolution
    \/ NextAfterMrv
    \/ NextValue
    \/ NextAfterAssign
    \/ NextAfterFcFail
    \/ NextAfterFcOk

\* the for loop asks again as long as the generator has not ended
SpecDrain == InitDrain /\ [][NextDrain]_vars /\ WF_vars(NextDrain)

-----------------------------------------------------------------------------
(* Direct calls of the methods of a constructed instance *)

\* (0,0)-(1,1) share only a box, (1,1)-(1,3) only a row, (1,3)-(3,3) only a
\* column, the other pairs nothing
OpsPool == {<<0, 0>>, <<1, 1>>, <<1, 3>>, <<3, 3>>}

OpsBoards == {Clear(SolvedGrid, S) : S \in (SUBSET OpsPool) \ {{}}}

\* the values of S as an increasing list
RECURSIVE ListOf(_)
ListOf(S) ==
    IF S = {} THEN << >>
    ELSE LET m == CHOOSE x \in S : \A y \in S : y <= x
         IN  Append(ListOf(S \ {m}), m)

DomainLists == {ListOf(S) : S \in SUBSET (1..MaxDomVal)}

Call(op, var, value, domains, asg) ==
    [op |-> op, var |-> var, value |-> value, domains |-> domains,
     assignment |-> asg]

\* an instance right after construction, and the arguments of one call
InitOps ==
    /\ mode = "direct"
    /\ size_arg = 4
    /\ board \in OpsBoards
    /\ LET self == SudokuCSP_init(size_arg, board)
       IN  /\ size = self.size
           /\ box_size = self.box_size
           /\ variables = self.variables
           /\ initial_domains = self.initial_domains
           /\ initial_board = self.initial_board
    /\ nodes = 0
    /\ backtracks = 0
    /\ solutions = 0
    /\ \/ call \in {Call("forward_check", var, value, domains, EmptyDict) :
                       var \in Range(variables), value \in 1..size,
                       domains \in [Range(variables) -> DomainLists]}
       \/ call \in {Call("select_unassigned_var", None, 0, domains, [v \in A |-> 1]) :
                       domains \in [Range(variables) -> DomainLists],
                       A \in (SUBSET Range(variables)) \ {Range(variables)}}
       \/ call \in {Call("is_consistent", var, value, None, asg) :
                       var \in Range(variables), value \in 1..MaxDomVal,
                       asg \in UNION {[A -> 1..MaxDomVal] : A \in SUBSET Range(variables)}}
    /\ ret = None
    /\ difficulty = "Easy"
    /\ pc = "call"
    /\ result = None
    /\ results = << >>
    /\ NoRun

ApplyForwardCheck ==
    /\ pc = "call"
    /\ call.op = "forward_check"
    /\ ret' = forward_check(call.var, call.value, call.domains)
    /\ pc' = "returned"
    /\ UNCHANGED <<board, size_arg, mode, difficulty, cspVars, statVars, gen,
                   stack, assignment, event, sols, fc_fails, solution_count,
                   solution, result, results, run, trace, trace1, call>>

ApplySelect ==
    /\ pc = "call"
    /\ call.op = "select_unassigned_var"
    /\ ret' = select_unassigned_var(call.domains, call.assignment)
    /\ pc' = "returned"
    /\ UNCHANGED <<board, size_arg, mode, difficulty, cspVars, statVars, gen,
                   stack, assignment, event, sols, fc_fails, solution_count,
                   solution, result, results, run, trace, trace1, call>>

\* the call leaves its assignment argument as the field assignment of the
\* result
ApplyIsConsistent ==
    /\ pc = "call"
    /\ call.op = "is_consistent"
    /\ ret' = [value |-> is_consistent(call.var, call.value, call.assignment),
               assignment |-> call.assignment]
    /\ pc' = "returned"
    /\ UNCHANGED <<board, size_arg, mode, difficulty, cspVars, statVars, gen,
                   stack, assignment, event, sols, fc_fails, solution_count,
                   solution, result, results, run, trace, trace1, call>>

NextOps ==
    \/ ApplyForwardCheck
    \/ ApplySelect
    \/ ApplyIsConsistent

SpecOps == InitOps /\ [][NextOps]_vars

-----------------------------------------------------------------------------
(* What a completion of a board is, stated without the solver *)

\* the box size of a perfect-square size
Root(n) == CHOOSE b \in 1..n : b * b = n

Units(n) ==
    {{<<r, c>> : c \in 0..(n - 1)} : r \in 0..(n - 1)}
    \cup {{<<r, c>> : r \in 0..(n - 1)} : c \in 0..(n - 1)}
    \cup {{<<br * Root(n) + i, bc * Root(n) + j>> :
              i \in 0..(Root(n) - 1), j \in 0..(Root(n) - 1)} :
          br \in 0..(Root(n) - 1), bc \in 0..(Root(n) - 1)}

\* every row, column and box is a permutation of 1..n
IsValidGrid(g, n) == \A u \in Units(n) : {g[cell] : cell \in u} = 1..n

RowPerms(n) == {p \in [0..(n - 1) -> 1..n] : \A i, j \in 0..(n - 1) : p[i] = p[j] => i = j}

\* row p can be put under row q, i rows above it: no value twice in a column
\* nor, when both rows lie in one band, in a box
RowsAgree(p, q, sameBand, n) ==
    \A c, d \in 0..(n - 1) :
        (c = d \/ (sameBand /\ c \div Root(n) = d \div Root(n))) => p[c] # q[d]

\* the grids of k rows without a repeated value in a row, column or box
RECURSIVE StackedRows(_, _)
StackedRows(k, n) ==
    IF k = 0 THEN {<< >>}
    ELSE {Append(g, p) : <<g, p>> \in
             {x \in StackedRows(k - 1, n) \X RowPerms(n) :
                 \A i \in 1..(k - 1) :
                     RowsAgree(x[2], x[1][i], (i - 1) \div Root(n) = (k - 1) \div Root(n), n)}}

ValidGrids ==
    [n \in SquareSizes |->
        {g \in {[cell \in Cells(n) |-> rows[cell[1] + 1][cell[2]]] :
                   rows \in StackedRows(n, n)} : IsValidGrid(g, n)}]

EmptyCells(b) == {cell \in DOMAIN b : b[cell] = 0}

Completions(b, n) ==
    {g \in ValidGrids[n] : \A cell \in DOMAIN b : b[cell] # 0 => g[cell] = b[cell]}

\* no two pre-filled cells of one row, column or box hold the same value
PrefilledConsistent(b, n) ==
    \A u \in Units(n) : \A x, y \in u :
        (x # y /\ b[x] # 0) => b[x] # b[y]

-----------------------------------------------------------------------------
(* Claims *)

\* C1: on a board of perfect-square size whose pre-filled cells are mutually
\* consistent and that has a completion, every solution event of a default
\* run carries an assignment that covers exactly the empty cells and that,
\* merged with the pre-filled cells, is a grid whose rows, columns and boxes
\* are permutations of 1..N.
C1_SolutionEventsAreValidGrids ==
    (/\ IsEvent(event, "solution")
     /\ size \in SquareSizes
     /\ PrefilledConsistent(initial_board, size)
     /\ Completions(initial_board, size) # {})
    => /\ DOMAIN event[2] = EmptyCells(initial_board)
       /\ IsValidGrid(Merge(initial_board, event[2]), size)

\* a second solution has just been emitted on a consistent 4x4 board
C1_Witness ==
    /\ IsEvent(event, "solution")
    /\ size = 4
    /\ PrefilledConsistent(initial_board, size)
    /\ Len(sols) = 2
    /\ EmptyCells(initial_board) # {}

\* C2: on a board of perfect-square size whose pre-filled cells are mutually
\* consistent, a fully drained default run has emitted every completion of
\* the board as a solution event, and each exactly once.
C2_EachCompletionExactlyOnce ==
    (/\ mode = "drain"
     /\ pc = "done"
     /\ size \in SquareSizes
     /\ PrefilledConsistent(initial_board, size))
    => /\ \A i, j \in 1..Len(sols) : sols[i] = sols[j] => i = j
       /\ {Merge(initial_board, sols[i]) : i \in 1..Len(sols)}
              = Completions(initial_board, size)

\* a drained run over a board with several completions
C2_Witness ==
    /\ mode = "drain"
    /\ pc = "done"
    /\ size = 4
    /\ PrefilledConsistent(initial_board, size)
    /\ Len(sols) >= 2
    /\ Cardinality(Completions(initial_board, size)) >= 2

\* a drained run over a consistent board that has no completion
C2_WitnessNoCompletion ==
    /\ mode = "drain"
    /\ pc = "done"
    /\ size = 4
    /\ PrefilledConsistent(initial_board, size)
    /\ Completions(initial_board, size) = {}
    /\ fc_fails > 0

\* C3: is_valid_puzzle(board) returns true if and only if the board has
\* exactly one completion.
C3_ValidIffOneCompletion ==
    (mode = "validate" /\ pc = "done")
    => (result[1] <=> Cardinality(Completions(board, size_arg)) = 1)

\* C4: a size without an integer square root is rejected by the constructor:
\* no instance exists for it and no box size is computed.
C4_NonSquareSizeRejected ==
    (\A k \in 0..size_arg : k * k # size_arg) => (pc = "init" /\ box_size = 0)

\* two pre-filled cells of one row hold the same value
HasRowDuplicate(b, n) ==
    \E r \in 0..(n - 1) : \E c, d \in 0..(n - 1) :
        c # d /\ b[<<r, c>>] # 0 /\ b[<<r, c>>] = b[<<r, d>>]

\* C5: over a board with a value twice among the pre-filled cells of a row,
\* no solution event is ever emitted (the constructor rejects no board).
C5_RowDuplicateNeverSolved ==
    IsEvent(event, "solution") => ~HasRowDuplicate(initial_board, size)

\* C6: after a full drain of one run on a fresh instance, nodes >= backtracks.
C6_NodesAtLeastBacktracks ==
    (mode = "drain" /\ pc = "done") => nodes >= backtracks

\* C6 as amended: after a full drain of one run on a fresh instance the
\* backtrack counter equals the number of recursive calls (nodes - 1) plus the
\* number of forward-checking failures, so nodes + fc_fails = backtracks + 1.
C6_BacktracksCountCallsAndFailures ==
    (mode = "drain" /\ pc = "done") => nodes + fc_fails = backtracks + 1

\* a drained run with two forward-checking failures and more backtracks than
\* nodes
C6_Witness ==
    /\ mode = "drain"
    /\ pc = "done"
    /\ fc_fails >= 2
    /\ backtracks > nodes

\* the other variables in the row, column or box of var
Neighbours(var) ==
    {v \in Range(variables) \ {var} : \E u \in Units(size) : var \in u /\ v \in u}

Without(domain, value) == SelectSeq(domain, LAMBDA x : x # value)

\* C7: if forward_check(var, value, domains) fails, removing value from the
\* domains of var's neighbours leaves a neighbour with an empty domain; if it
\* succeeds, the returned map has [value] for var, no neighbour's domain
\* contains value or is empty, and every other domain equals its input.
C7_ForwardCheckSound ==
    (pc = "returned" /\ call.op = "forward_check")
    => IF ret.new_domains = None
       THEN \E v \in Neighbours(call.var) : Without(call.domains[v], call.value) = << >>
       ELSE /\ ret.new_domains[call.var] = <<call.value>>
            /\ \A v \in Neighbours(call.var) :
                  /\ ~list_contains(ret.new_domains[v], call.value)
                  /\ ret.new_domains[v] # << >>
            /\ \A v \in Range(variables) \ (Neighbours(call.var) \cup {call.var}) :
                  ret.new_domains[v] = call.domains[v]

\* a successful call that pruned a neighbour and left a variable that is not
\* a neighbour with the value in its domain
C7_Witness ==
    /\ pc = "returned"
    /\ call.op = "forward_check"
    /\ ret.new_domains # None
    /\ \E v \in Neighbours(call.var) : list_contains(call.domains[v], call.value)
    /\ \E v \in Range(variables) \ (Neighbours(call.var) \cup {call.var}) :
          list_contains(ret.new_domains[v], call.value)

\* a failed call whose wipeout comes from the removal of the value
C7_WitnessFailure ==
    /\ pc = "returned"
    /\ call.op = "forward_check"
    /\ ret.new_domains = None
    /\ \A v \in Range(variables) : call.domains[v] # << >>

Unassigned(asg) == Range(variables) \ DOMAIN asg

\* number of other unassigned variables in the row, column or box of v
Degree(v, asg) == Cardinality(Neighbours(v) \cap Unassigned(asg))

ComesBefore(v, w) == v[1] < w[1] \/ (v[1] = w[1] /\ v[2] <= w[2])

\* C8: select_unassigned_var returns an unassigned variable of minimum domain
\* size; among those one of maximum degree; among those the first in
\* row-major order.
C8_SelectIsMrvThenDegreeThenFirst ==
    (pc = "returned" /\ call.op = "select_unassigned_var")
    => /\ ret \in Unassigned(call.assignment)
       /\ \A u \in Unassigned(call.assignment) :
             /\ Len(call.domains[ret]) <= Len(call.domains[u])
             /\ Len(call.domains[u]) = Len(call.domains[ret])
                   => /\ Degree(u, call.assignment) <= Degree(ret, call.assignment)
                      /\ Degree(u, call.assignment) = Degree(ret, call.assignment)
                            => ComesBefore(ret, u)

\* the degree decided: an earlier unassigned variable has the same domain
\* size as the returned one but a smaller degree
C8_Witness ==
    /\ pc = "returned"
    /\ call.op = "select_unassigned_var"
    /\ \E u \in Unassigned(call.assignment) :
          /\ u # ret
          /\ ComesBefore(u, ret)
          /\ Len(call.domains[u]) = Len(call.domains[ret])
          /\ Degree(u, call.assignment) < Degree(ret, call.assignment)
    /\ \E u \in Unassigned(call.assignment) :
          Len(call.domains[u]) > Len(call.domains[ret])

\* C9: generate_puzzle returns a grid that has a completion and whose number
\* of empty cells is the removal count of the difficulty.
C9_GeneratedPuzzleHasCompletion ==
    (mode = "generate" /\ pc = "done")
    => /\ Completions(result[1], size_arg) # {}
       /\ Cardinality(EmptyCells(result[1])) = get_cells_to_remove(difficulty, size_arg)

IsPrefix(s, t) == Len(s) <= Len(t) /\ \A i \in 1..Len(s) : s[i] = t[i]

\* C10: a run, drained fully or partly, never changes the variable set, the
\* initial domain map or the stored board of the instance; the events of a
\* second default run on the same instance repeat those of the first (all of
\* them when the first run was drained); is_valid_puzzle returns the same
\* boolean on a second call and never changes the board it is given.
C10_RunsLeaveInstanceAsBuilt ==
    /\ [][(pc \notin {"seed", "init"} /\ pc' # "init")
             => UNCHANGED <<variables, initial_domains, initial_board>>]_vars
    /\ [][mode = "validate" => board' = board]_vars
    /\ []((mode = "replay" /\ run = 2)
             => (IsPrefix(trace, trace1) \/ IsPrefix(trace1, trace)))
    /\ []((/\ mode = "replay"
           /\ pc = "done"
           /\ trace1 # << >>
           /\ trace1[Len(trace1)] = StopIteration) => trace = trace1)
    /\ []((mode = "validate" /\ pc = "done" /\ results # << >>)
             => result = results)

\* a second run has been drained after the first was abandoned while a value
\* was committed
C10_Witness ==
    /\ mode = "replay"
    /\ pc = "done"
    /\ run = 2
    /\ trace1 # << >>
    /\ trace1[Len(trace1)][1] \in {"assign", "fc_ok"}
    /\ Len(trace) > Len(trace1)
    /\ sols # << >>

\* a second run has been drained after the first was drained, with
\* backtracking over a forward-checking failure
C10_WitnessDrainedTwice ==
    /\ mode = "replay"
    /\ pc = "done"
    /\ run = 2
    /\ trace1 # << >>
    /\ trace1[Len(trace1)] = StopIteration
    /\ fc_fails > 0

\* is_valid_puzzle has returned for the second time
C10_WitnessValidatedTwice ==
    /\ mode = "validate"
    /\ pc = "done"
    /\ results = <<FALSE>>
    /\ solution_count = 2

\* C11: a consumer that keeps asking for events of a default run reaches the
\* end of the sequence, whatever the board; every recursive call is entered
\* with one more assignment entry than its caller was (the call at depth d
\* with d - 1 entries), and the depth never exceeds the number of variables
\* plus one.
C11_DrainTerminatesWithinDepth ==
    /\ [][(pc = "running" /\ stack # << >> /\ Top.pc = "start")
             => (Len(stack') = 1 /\ assignment' = EmptyDict)]_vars
    /\ [][(pc = "running" /\ Len(stack') > Len(stack))
             => Cardinality(DOMAIN assignment') = Len(stack') - 1]_vars
    /\ [](Len(stack) <= Len(variables) + 1)
    /\ []((mode = "drain" /\ pc = "running") => <>(pc = "done" /\ gen = "exhausted"))

\* a drained run over a board without completion that met a domain wipeout
C11_Witness ==
    /\ mode = "drain"
    /\ pc = "done"
    /\ gen = "exhausted"
    /\ sols = << >>
    /\ fc_fails > 0
    /\ nodes > 1

\* the deepest call of a run over three variables
C11_WitnessDepth ==
    /\ mode = "drain"
    /\ pc = "running"
    /\ Len(variables) >= 3
    /\ Len(stack) = Len(variables) + 1

\* C12: is_consistent(var, value, assignment) returns false exactly when
\* a variable other than var that is in the assignment and shares var's row,
\* column or box is assigned value, and it leaves the assignment as it was.
C12_ConsistentIffNoOtherHolds ==
    (pc = "returned" /\ call.op = "is_consistent")
    => /\ ret.value = ~(\E v \in Neighbours(call.var) \cap DOMAIN call.assignment :
                            call.assignment[v] = call.value)
       /\ ret.assignment = call.assignment

\* C12 for the calls the search makes, where var is not in the assignment
C12_ConsistentWhenVarUnassigned ==
    (pc = "returned" /\ call.op = "is_consistent" /\ call.var \notin DOMAIN call.assignment)
    => /\ ret.value = ~(\E v \in Neighbours(call.var) \cap DOMAIN call.assignment :
                            call.assignment[v] = call.value)
       /\ ret.assignment = call.assignment

\* the calls that hold a commitment: between lines 257 and 266, or at the
\* recursive call of line 274
Committed == {k \in 1..Len(stack) : stack[k].pc \in {"assign", "fc_fail", "fc_ok", "recurse"}}

\* the (variable, value) commitments of the calls from the root to the current one
PathAssignment ==
    [v \in {stack[k].var : k \in Committed} |->
        LET k == CHOOSE j \in Committed : stack[j].var = v
        IN  stack[k].lcv_order[stack[k].i]]

\* index of the 'assign' event that the 'unassign' event t[j] undoes
MatchingAssign(t, j) ==
    CHOOSE i \in 0..(j - 1) :
        /\ i > 0 => (t[i][1] = "assign" /\ t[i][2] = t[j][2])
        /\ \A k \in (i + 1)..(j - 1) : ~(t[k][1] = "assign" /\ t[k][2] = t[j][2])

\* C13: while a default run is suspended at an event, the assignment is
\* exactly the commitments of the calls on the stack, no two of them for one
\* variable, and the snapshot of an assign, unassign or solution event is
\* that assignment; the snapshot of an 'unassign' event is the snapshot of
\* the latest 'assign' of its variable without that variable; in a drained
\* run every 'assign' is followed by an 'unassign' of its variable before the
\* variable is assigned again; at the end of the sequence the assignment is
\* empty.
C13_AssignmentIsThePath ==
    /\ gen = "suspended"
          => /\ assignment = PathAssignment
             /\ \A j, k \in Committed : stack[j].var = stack[k].var => j = k
             /\ IsEvent(event, "assign") => event[4] = assignment
             /\ IsEvent(event, "unassign") => event[3] = assignment
             /\ IsEvent(event, "solution") => event[2] = assignment
    /\ (trace # << >> /\ trace[Len(trace)][1] = "unassign")
          => LET i == MatchingAssign(trace, Len(trace))
             IN  /\ i > 0
                 /\ \A k \in (i + 1)..(Len(trace) - 1) :
                       ~(trace[k][1] = "unassign" /\ trace[k][2] = trace[i][2])
                 /\ trace[Len(trace)][3] = [v \in DOMAIN trace[i][4] \ {trace[i][2]} |-> trace[i][4][v]]
    /\ (trace # << >> /\ trace[Len(trace)] = StopIteration)
          => \A i \in 1..Len(trace) :
                trace[i][1] = "assign"
                   => \E j \in (i + 1)..Len(trace) :
                         /\ trace[j][1] = "unassign"
                         /\ MatchingAssign(trace, j) = i
    /\ gen = "exhausted" => assignment = EmptyDict

\* a drained run in which a commitment was undone below another commitment,
\* and one after a domain wipeout
C13_Witness ==
    /\ trace # << >>
    /\ trace[Len(trace)] = StopIteration
    /\ gen = "exhausted"
    /\ fc_fails > 0
    /\ \E j \in 1..Len(trace) : trace[j][1] = "unassign" /\ trace[j][3] # EmptyDict

\* the consumer's next() resumes the generator
Resumed == pc = "running" /\ stack' # stack

\* the step enters a call: the root call or a recursive call
Enters == Top.pc = "start" \/ Len(stack') > Len(stack)

\* C14: the first event of a call is 'solution' when the assignment is
\* complete and 'mrv' otherwise, and 'mrv' is emitted nowhere else; 'mrv' is
\* immediately followed by 'lcv' of the same variable in the same call, and
\* 'lcv' is emitted nowhere else; 'assign'(var, value) is immediately followed
\* by 'fc_ok' or 'fc_fail' of the same var and value in the same call;
\* 'fc_fail'(var, value) is immediately followed by 'unassign'(var) of the
\* same call, without a call being entered; a recursive call is entered only
\* right after a 'fc_ok' of the caller's variable, and when it returns the
\* next event is the 'unassign' of that variable by the caller.
C14_EventOrderWithinNode ==
    [][Resumed =>
        /\ Enters
              => /\ event'[1] = IF Cardinality(DOMAIN assignment) = Len(variables)
                                THEN "solution" ELSE "mrv"
                 /\ nodes' = nodes + 1
        /\ IsEvent(event', "mrv") => Enters
        /\ IsEvent(event, "mrv")
              => /\ IsEvent(event', "lcv")
                 /\ event'[2] = event[2]
                 /\ Len(stack') = Len(stack)
        /\ IsEvent(event', "lcv") => IsEvent(event, "mrv")
        /\ IsEvent(event, "assign")
              => /\ event'[1] \in {"fc_ok", "fc_fail"}
                 /\ event'[2] = event[2]
                 /\ event'[3] = event[3]
                 /\ Len(stack') = Len(stack)
        /\ IsEvent(event, "fc_fail")
              => /\ IsEvent(event', "unassign")
                 /\ event'[2] = event[2]
                 /\ Len(stack') = Len(stack)
                 /\ nodes' = nodes
        /\ Len(stack') > Len(stack)
              => /\ IsEvent(event, "fc_ok")
                 /\ event[2] = Top.var
                 /\ stack'[Len(stack)].var = Top.var
        /\ IsEvent(event, "fc_ok") => Len(stack') = Len(stack) + 1
        /\ (Len(stack') < Len(stack) /\ stack' # << >>)
              => /\ IsEvent(event', "unassign")
                 /\ event'[2] = stack[Len(stack')].var
                 /\ stack[Len(stack')].pc = "recurse"
    ]_vars

\* a recorded run at a recursive call whose 'fc_fail' has just been followed
\* by the 'unassign' of the same variable
C14_Witness ==
    /\ Len(trace) >= 2
    /\ trace[Len(trace) - 1][1] = "fc_fail"
    /\ trace[Len(trace)][1] = "unassign"
    /\ trace[Len(trace)][2] = trace[Len(trace) - 1][2]
    /\ Len(stack) >= 2

\* C15: no step of a run changes the domain map of a call that stays on the
\* stack: forward_check leaves the map it is given as it was, when it succeeds
\* and when it fails, so a call tries each of its values against the map it
\* was entered with; the root call's map is a copy of the initial domain map
\* and a recursive call's map is the map its caller's forward check returned.
C15_SiblingsSeeEntryDomains ==
    /\ [][Resumed => \A k \in 1..Len(stack) :
                         k <= Len(stack') => stack'[k].domains = stack[k].domains]_vars
    /\ [](gen \in {"created", "suspended"}
             => /\ stack[1].domains = DefaultDomains
                /\ \A k \in 2..Len(stack) : stack[k].domains = stack[k - 1].new_domains)

\* a call commits its second value after the forward check of its first value
\* pruned another variable's domain
C15_Witness ==
    /\ gen = "suspended"
    /\ Top.pc = "assign"
    /\ Top.i >= 2
    /\ Top.new_domains # None
    /\ \E v \in Range(variables) \ {Top.var} : Top.new_domains[v] # Top.domains[v]

\* the forward check of a recursive call has failed and the call has emitted
\* its 'unassign'
C15_WitnessFailure ==
    /\ gen = "suspended"
    /\ Len(stack) >= 2
    /\ Top.pc = "unassign"
    /\ Top.new_domains = None

\* C16: in a default run, the domain map of every recursive call holds, for
\* each variable committed by a call above it (these are the variables in the
\* assignment when the call is entered), exactly the list of that variable's
\* assigned value; this is so for every deeper call as long as the commitment
\* stands, and for the map a successful forward check hands to the next call.
C16_AssignedDomainsArePinned ==
    gen = "suspended"
    => /\ \A k \in 2..Len(stack) : \A j \in 1..(k - 1) :
             /\ stack[j].var \in DOMAIN assignment
             /\ stack[k].domains[stack[j].var] = <<assignment[stack[j].var]>>
       /\ Top.pc = "fc_ok"
             => \A v \in DOMAIN assignment : Top.new_domains[v] = <<assignment[v]>>

\* a call two levels below a commitment to a variable that had several
\* candidates, the variable committed in between being in its row, column or
\* box
C16_Witness ==
    /\ gen = "suspended"
    /\ Len(stack) >= 3
    /\ Len(initial_domains[stack[1].var]) >= 2
    /\ same_unit(stack[1].var[1], stack[1].var[2],
                 stack[2].var[1], stack[2].var[2], box_size)

\* the values of the pre-filled cells in the row, column or box of var
PrefilledAround(var) ==
    {initial_board[cell] : cell \in {x \in Cells(size) \ {var} :
         /\ initial_board[x] # 0
         /\ \/ x[1] = var[1]
            \/ x[2] = var[2]
            \/ /\ x[1] \div Root(size) = var[1] \div Root(size)
               /\ x[2] \div Root(size) = var[2] \div Root(size)}}

\* C17: on an instance of perfect-square size, as it is constructed no value
\* in the initial domain of a variable is held by a pre-filled cell of the
\* variable's row, column or box, and no 'assign' event of a default run
\* commits such a value.
C17_NoAssignAgainstPrefilled ==
    (size \in SquareSizes)
    => /\ pc = "constructed"
             => \A v \in Range(variables) :
                   Range(initial_domains[v]) \cap PrefilledAround(v) = {}
       /\ IsEvent(event, "assign") => event[3] \notin PrefilledAround(event[2])

\* a value is committed to a variable that has several candidates and
\* pre-filled cells around it
C17_Witness ==
    /\ IsEvent(event, "assign")
    /\ size = 4
    /\ Len(initial_domains[event[2]]) >= 2
    /\ Cardinality(PrefilledAround(event[2])) >= 2

\* C18: a default run emits no 'pruned' event: when a call is about to try a
\* value of its list, the is_consistent check of line 252 succeeds; and when a
\* call of an instance of perfect-square size has selected its variable, no
\* value of that variable's working domain is held by a committed variable of
\* its row, column or box.
C18_NoPrunedInDefaultRuns ==
    /\ ~IsEvent(event, "pruned")
    /\ gen = "suspended"
          => /\ (Top.pc \in {"lcv", "unassign"} /\ Top.i < Len(Top.lcv_order))
                   => is_consistent(Top.var, Top.lcv_order[Top.i + 1], assignment)
             /\ (Top.pc = "mrv" /\ size \in SquareSizes)
                   => \A v \in Neighbours(Top.var) \cap DOMAIN assignment :
                         ~list_contains(Top.domains[Top.var], assignment[v])

\* a value has passed the check in a recursive call whose variable had, in
\* its initial domain, the value of a committed variable of its row, column
\* or box
C18_Witness ==
    /\ IsEvent(event, "assign")
    /\ Len(stack) >= 2
    /\ \E v \in DOMAIN assignment \ {Top.var} :
          /\ same_unit(v[1], v[2], Top.var[1], Top.var[2], box_size)
          /\ list_contains(initial_domains[Top.var], assignment[v])

\* number of events of a kind in a recorded run
Count(t, kind) == Cardinality({i \in 1..Len(t) : t[i][1] = kind})

\* C19: the counters of a freshly constructed instance are zero; while the
\* consumer holds an event of the first run, solutions is the number of
\* 'solution' events and backtracks the number of 'unassign' events emitted so
\* far; no step of a run decreases a counter, and in a second run on the same
\* instance the counters are the first run's totals plus the events of the
\* second run.
C19_CountersCountEvents ==
    /\ [](pc = "constructed" => (nodes = 0 /\ backtracks = 0 /\ solutions = 0))
    /\ []((run = 1 /\ gen = "suspended") => solutions = Len(sols))
    /\ []((mode = "replay" /\ gen = "suspended")
             => /\ solutions = Count(trace1, "solution") + Count(trace, "solution")
                /\ backtracks = Count(trace1, "unassign") + Count(trace, "unassign"))
    /\ [][(pc \notin {"seed", "init"} /\ pc' # "init")
             => (nodes' >= nodes /\ backtracks' >= backtracks /\ solutions' >= solutions)]_vars
    /\ [][(pc \in {"constructed", "idle"}) => UNCHANGED statVars]_vars

\* the consumer holds a solution event of a second run, the first run having
\* emitted solution and unassign events
C19_Witness ==
    /\ mode = "replay"
    /\ run = 2
    /\ IsEvent(event, "solution")
    /\ Count(trace1, "solution") >= 1
    /\ Count(trace1, "unassign") >= 2
    /\ solutions >= 2
    /\ backtracks > Count(trace1, "unassign")

====
